---- MODULE Spec2Model ----
(***************************************************************************)
(* The connection pool of zlyuancn/connpool as a state machine.            *)
(*                                                                         *)
(* pool.go (src/unnamed/part_004), wait.go, connect.go and conn.go are     *)
(* modelled statement by statement.  Everything the pool does between      *)
(* c.mx.Lock() and c.mx.Unlock() is one action: the mutex makes it atomic  *)
(* for every other critical section.  What the code does outside the mutex *)
(* (isClose(), close(c.close), the select of the wait loop, the Creator)   *)
(* is a step of its own.  mx differs from Free only when its holder can    *)
(* never release it: an operation that returned without unlocking, or one  *)
(* that blocks inside its critical section on the full activeLock channel. *)
(***************************************************************************)
EXTENDS Integers, Sequences, FiniteSets, TLC

\* ------------------------------------------------------------------ bounds
NumClients == 3        \* goroutines calling Get and Put
NumClosers == 2        \* goroutines calling Close
MaxConns == 2          \* handles the Creator can produce
MaxOrphans == 1        \* Creator calls still running after their caller gave up
MaxRetrying == 1       \* failed replenish goroutines that have not retried yet
MaxCloseCalls == 2     \* Closer invocations counted per handle (saturating)

\* ------------------------------------------- Config (after Config.Check)
MaxActive == 1
MaxWaitConnCount == 1
MinIdle == 1
MaxIdle == 1
BatchIncrement == 1
BatchShrink == 1

Clients == 1..NumClients
Closers == 1..NumClosers
Conns == 1..MaxConns
None == 0                       \* nil *Conn
Free == 0                       \* the mutex is not held
TaskId == NumClients + 1        \* holder id of a replenish goroutine
\* what a Get has just returned, and from where: "entry" (the closed check),
\* "lock" (getLoop's critical section), "wait" (waitReqGetConnLoop), "woken"
\* (waitReqGetConnLoop, its blocked select woken by close(c.close))
NoRet == [c |-> 0, res |-> "none", at |-> "none"]
Returned(c, res, at) == [c |-> c, res |-> res, at |-> at]

VARIABLES
    pool,       \* the ConnectPool fields guarded by mx, and the waitReq fields
    closed,     \* c.close is closed
    closeDone,  \* some Close call has drained the conn list and returned
    panicked,   \* close of a closed channel: the process crashed
    mx,         \* who holds c.mx for ever (Free: nobody)
    pc,         \* where each client goroutine is
    cpc,        \* where each goroutine calling Close is
    held,       \* the handle a client got from Get and has not Put back
    got,        \* the handle a waiter took from its channel after its wait ended
    ret,        \* the Get that has just returned, and what it returned (else NoRet)
    reg,        \* the activeNum a waiter has read for its unlocked activeNum++
    status,     \* per handle: "none" (not created), "ok", "broken", "stale"
    creating,   \* Creator calls in flight whose applyConnectLoop still waits
    orphans,    \* Creator calls in flight whose applyConnectLoop gave up
    apPending,  \* autoPutConn calls of replenish goroutines waiting for mx
    decOk,      \* replenish goroutines before connectingCount--, err == nil
    decErr,     \* replenish goroutines before connectingCount--, err != nil
    retry,      \* replenish goroutines before the retry replenishLackConn()
    mpc         \* where NewConnectPool is, then the checkIdleLoop it starts

vars == <<pool, closed, closeDone, panicked, mx, pc, cpc, held, got, ret, reg,
          status, creating, orphans, apPending, decOk, decErr, retry, mpc>>

taskVars == <<creating, orphans, apPending, decOk, decErr, retry>>
clientVars == <<pc, held, got, reg>>
poolVars == <<pool, mx>>
closeVars == <<closed, closeDone, panicked, cpc>>

\* ----------------------------------------------------------------- helpers
Bump(n) == IF n < MaxCloseCalls THEN n + 1 ELSE n

RemoveAt(s, i) == SubSeq(s, 1, i - 1) \o SubSeq(s, i + 1, Len(s))

\* list.Remove(e): a no-op when e is not (any longer) an element of the list
RemoveElem(s, x) ==
    IF \E i \in 1..Len(s) : s[i] = x
    THEN RemoveAt(s, CHOOSE i \in 1..Len(s) : s[i] = x)
    ELSE s

InSeq(s, x) == \E i \in 1..Len(s) : s[i] = x

\* ConnClose(conn), called directly or as `go c.conf.ConnClose(conn)`
ConnClose(P, conn) == [P EXCEPT !.closeCalls[conn] = Bump(@)]

\* `go c.conf.ConnClose(conn)`: the Closer is scheduled in a goroutine of its
\* own (validConn, releaseNeedlessConn); goClose counts these per handle
goConnClose(P, conn) == [ConnClose(P, conn) EXCEPT !.goClose[conn] = Bump(@)]

\* a waitReq whose goroutine is blocked in the select of waitReqGetConnLoop
\* and has not been woken: only such a receiver takes a non-blocking send on
\* an unbuffered channel.  close(c.close) and the timer wake it for good.
Parked(P, req) == pc[req] = "wait" /\ P.ch[req] = None

\* ------------------------------------------------------------------ wait.go
\* a faulty putActiveLock: the credit goes to the newest waiter of waitList
putActiveLockNewestFirst(P) ==
    IF P.stuck THEN P
    ELSE IF Len(P.waitList) = 0
    THEN IF P.maxActive > 0
         THEN IF P.gate < P.maxActive
              THEN [P EXCEPT !.gate = @ + 1]
              ELSE [P EXCEPT !.stuck = TRUE]
         ELSE P
    ELSE LET n   == Len(P.waitList)
             req == P.waitList[n]
         IN  [P EXCEPT !.waitList = SubSeq(@, 1, n - 1),
                       !.activeWaitList = Append(@, req),
                       !.hasActiveLock[req] = TRUE]

\* putActiveLock: hand the credit to the head of waitList, else back to the
\* activeLock channel; the send blocks when the channel is full.
putActiveLock(P) ==
    IF P.stuck THEN P
    ELSE IF Len(P.waitList) = 0
    THEN IF P.maxActive > 0
         THEN IF P.gate < P.maxActive
              THEN [P EXCEPT !.gate = @ + 1]
              ELSE [P EXCEPT !.stuck = TRUE]
         ELSE P
    ELSE LET req == Head(P.waitList)
         IN  [P EXCEPT !.waitList = Tail(@),
                       !.activeWaitList = Append(@, req),
                       !.hasActiveLock[req] = TRUE]

\* useConn of src/wait.go (waitReq.ch unbuffered): give conn to the first
\* waitReq of activeWaitList that takes it; a failed send releases its credit
RECURSIVE useConn(_, _)
useConn(P, conn) ==
    IF P.stuck \/ Len(P.activeWaitList) = 0
    THEN [P |-> P, ok |-> FALSE]
    ELSE LET req == Head(P.activeWaitList)
             P1  == [P EXCEPT !.activeWaitList = Tail(@)]
         IN  IF Parked(P1, req)
             THEN [P |-> [P1 EXCEPT !.ch[req] = conn], ok |-> TRUE]
             ELSE useConn(putActiveLock(P1), conn)

\* useConn of the buffered wait path (src/unnamed/part_003, waitReq.ch has
\* capacity 1): the loop sends conn to every waitReq it detaches and has no
\* `return true`; a send into a full buffer would block under the mutex
RECURSIVE useConnBuffered(_, _)
useConnBuffered(P, conn) ==
    IF P.stuck \/ Len(P.activeWaitList) = 0
    THEN [P |-> P, ok |-> FALSE]
    ELSE LET req == Head(P.activeWaitList)
             P1  == [P EXCEPT !.activeWaitList = Tail(@)]
         IN  IF P1.ch[req] # None
             THEN [P |-> [P1 EXCEPT !.stuck = TRUE], ok |-> FALSE]
             ELSE useConnBuffered([P1 EXCEPT !.ch[req] = conn], conn)

\* the useConn that is compiled in: chCap is the capacity addWaitReq gives
\* to waitReq.ch (wait.go line 70: 0, part_003 line 64: 1)
deliver(P, conn) ==
    IF P.chCap = 0 THEN useConn(P, conn) ELSE useConnBuffered(P, conn)

\* a faulty limit test (> for >=): one waiter too many is admitted
addWaitReqLimitOffByOne(P, hasActiveLock) ==
    /\ ~hasActiveLock
    /\ P.maxWaitConnCount > 0
    /\ Len(P.waitList) > P.maxWaitConnCount

\* addWaitReq: a new waitReq for client c at the back of its list
addWaitReqLimit(P, hasActiveLock) ==
    /\ ~hasActiveLock
    /\ P.maxWaitConnCount > 0
    /\ Len(P.waitList) >= P.maxWaitConnCount

addWaitReq(P, c, hasActiveLock) ==
    IF hasActiveLock
    THEN [P EXCEPT !.activeWaitList = Append(@, c),
                   !.hasActiveLock[c] = TRUE,
                   !.ch[c] = None]
    ELSE [P EXCEPT !.waitList = Append(@, c),
                   !.hasActiveLock[c] = FALSE,
                   !.ch[c] = None]

\* ------------------------------------------------------------------ conn.go
\* validConn: the Validator says false for a broken handle (no Closer call);
\* a handle past MaxConnLifetime / IdleTimeout is given to the Closer.
validConn(P, conn) ==
    IF status[conn] = "broken" THEN [P |-> P, ok |-> FALSE]
    ELSE IF status[conn] = "stale" THEN [P |-> goConnClose(P, conn), ok |-> FALSE]
    ELSE [P |-> P, ok |-> TRUE]

\* popFrontConn: the first valid handle of connList, dropping the invalid ones
RECURSIVE popFrontConn(_)
popFrontConn(P) ==
    IF Len(P.connList) = 0 THEN [P |-> P, conn |-> None]
    ELSE LET conn == Head(P.connList)
             v    == validConn([P EXCEPT !.connList = Tail(@)], conn)
         IN  IF v.ok THEN [P |-> v.P, conn |-> conn] ELSE popFrontConn(v.P)

\* --------------------------------------------------------------- connect.go
getWaitConnCount(P) == Len(P.activeWaitList)

\* a faulty count: the creations in flight are not subtracted
needConnCountIgnoresInFlight(minIdle, batchIncrement, wait, idle, connecting) ==
    LET need0 == minIdle + wait - idle
    IN  IF wait > 0 /\ need0 < batchIncrement THEN batchIncrement ELSE need0

\* the arithmetic of checkNeedConnCount (lines 120-128) on the values it reads
needConnCount(minIdle, batchIncrement, wait, idle, connecting) ==
    LET need0 == minIdle + wait - idle
        need1 == IF wait > 0 /\ need0 < batchIncrement THEN batchIncrement ELSE need0
    IN  need1 - connecting

checkNeedConnCount(P) ==
    needConnCount(MinIdle, BatchIncrement, getWaitConnCount(P), Len(P.connList),
                  P.connectingCount)

\* the critical section of replenishLackConn: the number of goroutines to launch
replenishNeed(P) ==
    LET need == checkNeedConnCount(P) IN IF need < 1 THEN 0 ELSE need

\* releaseInvalidConn (MaxConnLifetime >= 1 in the modelled Config, so the
\* early return of line 133 is not taken): remove every invalid handle
RECURSIVE sweep(_, _)
sweep(P, i) ==
    IF i > Len(P.connList) THEN P
    ELSE LET v == validConn(P, P.connList[i])
         IN  IF v.ok THEN sweep(v.P, i + 1)
             ELSE sweep([v.P EXCEPT !.connList = RemoveAt(@, i)], i)

releaseInvalidConn(P) == sweep(P, 1)

\* a faulty loop: the BatchShrink limit is not applied
RECURSIVE shrinkConnAllSurplus(_, _, _, _)
shrinkConnAllSurplus(maxIdle, batchShrink, P, shrink) ==
    IF Len(P.connList) > maxIdle
    THEN LET n    == Len(P.connList)
             conn == P.connList[n]
         IN  shrinkConnAllSurplus(maxIdle, batchShrink,
                 goConnClose([P EXCEPT !.connList = SubSeq(@, 1, n - 1)], conn),
                 shrink + 1)
    ELSE P

\* the loop of releaseNeedlessConn (lines 163-172) for a Config with the given
\* MaxIdle and BatchShrink: drop handles from the back
RECURSIVE shrinkConn(_, _, _, _)
shrinkConn(maxIdle, batchShrink, P, shrink) ==
    IF Len(P.connList) > maxIdle /\ shrink < batchShrink
    THEN LET n    == Len(P.connList)
             conn == P.connList[n]
         IN  shrinkConn(maxIdle, batchShrink,
                 goConnClose([P EXCEPT !.connList = SubSeq(@, 1, n - 1)], conn),
                 shrink + 1)
    ELSE P

\* releaseNeedlessConn: drop up to BatchShrink handles from the back
shrinkLoop(P, shrink) == shrinkConn(MaxIdle, BatchShrink, P, shrink)

releaseNeedlessConn(P) == shrinkLoop(P, 0)

\* ------------------------------------------------------------------ pool.go
isClose == closed

\* replenishLackConn called by a goroutine that holds mx (Put, line 104):
\* it returns at once on a closed pool, else it blocks in c.mx.Lock()
replenishLocked(P) == IF isClose THEN P ELSE [P EXCEPT !.stuck = TRUE]

\* Put between Lock and Unlock
RECURSIVE putValidLoop(_, _)
putValidLoop(P, conn) ==
    LET v == validConn(P, conn)
    IN  IF v.ok THEN [P |-> v.P, conn |-> conn]
        ELSE LET r == popFrontConn(v.P)
             IN  IF r.conn = None THEN [P |-> r.P, conn |-> None]
                 ELSE putValidLoop(r.P, r.conn)

PutBody(P0, conn) ==
    LET P1 == [P0 EXCEPT !.activeNum = @ - 1]
    IN  IF ~isClose
        THEN [P |-> ConnClose(P1, conn), replenish |-> FALSE]
        ELSE LET P2 == putActiveLock(P1)
             IN  IF P2.stuck THEN [P |-> P2, replenish |-> FALSE]
                 ELSE LET r == putValidLoop(P2, conn)
                      IN  IF r.conn = None
                          THEN [P |-> replenishLocked(r.P), replenish |-> TRUE]
                          ELSE LET u == deliver(r.P, r.conn)
                               IN  IF u.ok \/ u.P.stuck
                                   THEN [P |-> u.P, replenish |-> FALSE]
                                   ELSE [P |-> [u.P EXCEPT !.connList = <<r.conn>> \o @],
                                         replenish |-> FALSE]

\* autoPutConn between Lock and Unlock (validConn has passed)
autoPutConnBody(P, conn) ==
    IF ~isClose
    THEN ConnClose(P, conn)
    ELSE LET u == deliver(P, conn)
         IN  IF u.ok \/ u.P.stuck THEN u.P
             ELSE [u.P EXCEPT !.connList = Append(@, conn)]

\* Close between Lock and Unlock: every idle handle goes to the Closer
RECURSIVE drain(_)
drain(P) ==
    IF Len(P.connList) = 0 THEN P
    ELSE drain(ConnClose([P EXCEPT !.connList = Tail(@)], Head(P.connList)))


\* ----------------------------------------------------------- initial states
\* the ConnectPool of NewConnectPool (lines 58-67) once initConnect has filled
\* the activeLock channel (src/connect.go lines 12-17); waitFirst is
\* conf.WaitFirstConn
NewPool(cap, waitFirst) ==
    [maxActive |-> MaxActive,
     maxWaitConnCount |-> MaxWaitConnCount,
     gate |-> MaxActive,
     waitList |-> <<>>,
     activeWaitList |-> <<>>,
     connList |-> <<>>,
     connectingCount |-> 0,
     activeNum |-> 0,
     hasActiveLock |-> [c \in Clients |-> FALSE],
     ch |-> [c \in Clients |-> None],
     closeCalls |-> [h \in Conns |-> 0],
     goClose |-> [h \in Conns |-> 0],
     stuck |-> FALSE,
     chCap |-> cap,
     waitFirstConn |-> waitFirst]

\* NewConnectPool with WaitFirstConn = false has returned: initConnect has
\* filled the activeLock channel and replenishLackConn has launched MinIdle
\* creations.  cap is the capacity of waitReq.ch, n the number of goroutines
\* that call Get and Put, k the number of goroutines that call Close.
\* out = 0 is the pool as NewConnectPool returns it.  out = 1 is the pool in
\* service: client 1 holds handle 1, the credit for it is taken, and the
\* creations that refill the idle reserve are in flight.
Boot(cap, n, k, out) ==
    /\ pool = [NewPool(cap, FALSE) EXCEPT !.gate = MaxActive - out,
                                          !.connectingCount = MinIdle,
                                          !.activeNum = out]
    /\ closed = FALSE
    /\ closeDone = FALSE
    /\ panicked = FALSE
    /\ mx = Free
    /\ pc = [c \in Clients |-> IF c <= n THEN "idle" ELSE "off"]
    /\ cpc = [j \in Closers |-> IF j <= k THEN "idle" ELSE "off"]
    /\ held = [c \in Clients |-> IF c <= out THEN c ELSE None]
    /\ got = [c \in Clients |-> None]
    /\ ret = NoRet
    /\ reg = [c \in Clients |-> 0]
    /\ status = [h \in Conns |-> IF h <= out THEN "ok" ELSE "none"]
    /\ creating = MinIdle
    /\ orphans = 0
    /\ apPending = {}
    /\ decOk = 0
    /\ decErr = 0
    /\ retry = 0
    /\ mpc = "sleep"

\* the pool with src/wait.go
Init == Boot(0, NumClients, 1, 0)

\* a panic ends the process: no goroutine takes another step
Running == ~panicked

\* the critical section of `who` ends in P: it unlocks, unless it blocked inside
Unlock(P, who) ==
    /\ pool' = P
    /\ mx' = IF P.stuck THEN who ELSE Free

\* ---------------------------------------------------------------- Get
\* getLoop line 151: the closed check, outside the mutex
GetStart(c) ==
    /\ Running
    /\ pc[c] = "idle"
    /\ held[c] = None
    /\ IF isClose
       THEN /\ ret' = Returned(c, "PoolClosed", "entry")
            /\ pc' = pc
       ELSE /\ ret' = NoRet
            /\ pc' = [pc EXCEPT ![c] = "get_lock"]
    /\ UNCHANGED <<poolVars, closeVars, held, got, reg, status, taskVars, mpc>>

\* getLoop lines 155-182, between Lock and Unlock
getLoop(c) ==
    /\ Running
    /\ pc[c] = "get_lock"
    /\ mx = Free
    /\ IF pool.maxActive > 0 /\ pool.gate = 0
       THEN \* no credit: wait without one, or fail on the waiter limit
            IF addWaitReqLimit(pool, FALSE)
            THEN /\ pc' = [pc EXCEPT ![c] = "idle"]
                 /\ ret' = Returned(c, "MaxWaitLimit", "lock")
                 /\ UNCHANGED <<pool, mx, held>>
            ELSE /\ pool' = addWaitReq(pool, c, FALSE)
                 /\ pc' = [pc EXCEPT ![c] = "wait_enter"]
                 /\ ret' = NoRet
                 /\ UNCHANGED <<mx, held>>
       ELSE LET P1 == IF pool.maxActive > 0 THEN [pool EXCEPT !.gate = @ - 1] ELSE pool
                r  == popFrontConn(P1)
            IN  IF r.conn # None
                THEN \* lines 175-178: returns without c.mx.Unlock()
                     /\ pool' = [r.P EXCEPT !.activeNum = @ + 1]
                     /\ mx' = c
                     /\ held' = [held EXCEPT ![c] = r.conn]
                     /\ ret' = Returned(c, "conn", "lock")
                     /\ pc' = [pc EXCEPT ![c] = "idle"]
                ELSE /\ pool' = addWaitReq(r.P, c, TRUE)
                     /\ pc' = [pc EXCEPT ![c] = "get_repl"]
                     /\ ret' = NoRet
                     /\ UNCHANGED <<mx, held>>
    /\ UNCHANGED <<closeVars, got, reg, status, taskVars, mpc>>

\* replenishLackConn as called outside the mutex: nothing on a closed pool,
\* else its critical section (lines 90-97) and the launch of `need` goroutines
replenishLackConn ==
    IF isClose \/ mx # Free
    THEN UNCHANGED <<pool, mx, creating>>
    ELSE LET need == replenishNeed(pool)
         IN  /\ pool' = [pool EXCEPT !.connectingCount = @ + need]
             /\ creating' = creating + need
             /\ mx' = mx

\* the caller of replenishLackConn blocks in c.mx.Lock() for ever
replenishBlocks == ~isClose /\ mx # Free

\* getLoop line 188
getReplenish(c) ==
    /\ Running
    /\ pc[c] = "get_repl"
    /\ replenishLackConn
    /\ pc' = [pc EXCEPT ![c] = IF replenishBlocks THEN "blocked" ELSE "wait_enter"]
    /\ ret' = NoRet
    /\ UNCHANGED <<closeVars, held, got, reg, status, orphans, apPending, decOk,
                   decErr, retry, mpc>>

\* --------------------------------------------------- waitReqGetConnLoop
\* the select finds nothing ready and blocks
waitPark(c) ==
    /\ Running
    /\ pc[c] = "wait_enter"
    /\ ~closed
    /\ pool.ch[c] = None
    /\ pc' = [pc EXCEPT ![c] = "wait"]
    /\ ret' = NoRet
    /\ UNCHANGED <<poolVars, closeVars, held, got, reg, status, taskVars, mpc>>

\* a faulty close case: the woken waiter reports a timeout
waitClosedAsTimeout(c) ==
    /\ Running
    /\ \/ pc[c] = "wait_enter" /\ closed
       \/ pc[c] = "woke_close"
    /\ pc' = [pc EXCEPT ![c] = "idle"]
    /\ ret' = Returned(c, "WaitTimeout", "wait")
    /\ UNCHANGED <<poolVars, closeVars, held, got, reg, status, taskVars, mpc>>

\* case <-c.close: the select is entered on a closed pool, or close(c.close)
\* has woken it.  wait.go lines 85-86 return at once; part_003 line 80 goes on
\* to the reconciliation under the mutex.
waitClosed(c) ==
    /\ Running
    /\ \/ pc[c] = "wait_enter" /\ closed
       \/ pc[c] = "woke_close"
    /\ IF pool.chCap = 0
       THEN /\ pc' = [pc EXCEPT ![c] = "idle"]
            /\ ret' = Returned(c, "PoolClosed",
                                IF pc[c] = "woke_close" THEN "woken" ELSE "wait")
       ELSE /\ pc' = [pc EXCEPT ![c] = "recon_c"]
            /\ ret' = NoRet
    /\ UNCHANGED <<poolVars, closeVars, held, got, reg, status, taskVars, mpc>>

\* case <-ctxWait.Done(): WaitTimeout or the caller's deadline has passed.
\* A blocked select is woken by the timer unless something else woke it
\* before; a select that is entered late may find several cases ready.
waitTimerFires(c) ==
    /\ Running
    /\ \/ pc[c] = "wait_enter"
       \/ pc[c] = "wait" /\ pool.ch[c] = None
    /\ pc' = [pc EXCEPT ![c] = IF pool.chCap = 0 THEN "timeout_lock" ELSE "recon_t"]
    /\ ret' = NoRet
    /\ UNCHANGED <<poolVars, closeVars, held, got, reg, status, taskVars, mpc>>

\* wait.go lines 88-96: leave the list, give the credit back, return the timeout
waitTimeoutBody(P, c) ==
    IF P.hasActiveLock[c]
    THEN putActiveLock([P EXCEPT !.activeWaitList = RemoveElem(@, c)])
    ELSE [P EXCEPT !.waitList = RemoveElem(@, c)]

waitTimeout(c) ==
    /\ Running
    /\ pc[c] = "timeout_lock"
    /\ mx = Free
    /\ LET P == waitTimeoutBody(pool, c)
       IN  /\ Unlock(P, c)
           /\ IF P.stuck
              THEN /\ pc' = [pc EXCEPT ![c] = "stuck"]
                   /\ ret' = NoRet
              ELSE /\ pc' = [pc EXCEPT ![c] = "idle"]
                   /\ ret' = Returned(c, "WaitTimeout", "wait")
    /\ UNCHANGED <<closeVars, held, got, reg, status, taskVars, mpc>>

\* case conn := <-req.ch, and the read of c.activeNum for the activeNum++
\* that follows: the increment is made without the mutex (wait.go line 98,
\* part_003 line 84), so its read and its write are two steps
waitRecv(c) ==
    /\ Running
    /\ pc[c] \in {"wait_enter", "wait"}
    /\ pool.ch[c] # None
    /\ got' = [got EXCEPT ![c] = pool.ch[c]]
    /\ reg' = [reg EXCEPT ![c] = pool.activeNum]
    /\ pool' = [pool EXCEPT !.ch[c] = None]
    /\ pc' = [pc EXCEPT ![c] = "inc"]
    /\ ret' = NoRet
    /\ UNCHANGED <<mx, closeVars, held, status, taskVars, mpc>>

\* the write of activeNum++, and the return of the handle
waitInc(c) ==
    /\ Running
    /\ pc[c] = "inc"
    /\ pool' = [pool EXCEPT !.activeNum = reg[c] + 1]
    /\ held' = [held EXCEPT ![c] = got[c]]
    /\ got' = [got EXCEPT ![c] = None]
    /\ pc' = [pc EXCEPT ![c] = "idle"]
    /\ ret' = Returned(c, "conn", "wait")
    /\ UNCHANGED <<mx, closeVars, reg, status, taskVars, mpc>>

\* part_003 lines 89-102, after the close or the timeout case: take a handle
\* that has arrived on the channel, else leave the list; give the credit back
waitReconcileBody(P, c) ==
    LET P1 == IF P.ch[c] # None
              THEN [P EXCEPT !.ch[c] = None]
              ELSE IF P.hasActiveLock[c]
                   THEN [P EXCEPT !.activeWaitList = RemoveElem(@, c)]
                   ELSE [P EXCEPT !.waitList = RemoveElem(@, c)]
    IN  IF P1.hasActiveLock[c] THEN putActiveLock(P1) ELSE P1

waitErr(c) == IF pc[c] \in {"recon_c", "aput_c"} THEN "PoolClosed" ELSE "WaitTimeout"

waitReconcile(c) ==
    /\ Running
    /\ pc[c] \in {"recon_c", "recon_t"}
    /\ mx = Free
    /\ LET conn == pool.ch[c]
           P    == waitReconcileBody(pool, c)
       IN  /\ Unlock(P, c)
           /\ IF P.stuck
              THEN /\ pc' = [pc EXCEPT ![c] = "stuck"]
                   /\ ret' = NoRet
                   /\ got' = got
              ELSE IF conn # None
              THEN /\ pc' = [pc EXCEPT ![c] = IF pc[c] = "recon_c" THEN "aput_c" ELSE "aput_t"]
                   /\ ret' = NoRet
                   /\ got' = [got EXCEPT ![c] = conn]
              ELSE /\ pc' = [pc EXCEPT ![c] = "idle"]
                   /\ ret' = Returned(c, waitErr(c), "wait")
                   /\ got' = got
    /\ UNCHANGED <<closeVars, held, reg, status, taskVars, mpc>>

\* part_003 lines 104-107: autoPutConn of the handle taken from the channel
\* (validConn, then its critical section), and the return of the error.
\* The named result conn is returned along with the error; callers drop it.
waitAutoPut(c) ==
    /\ Running
    /\ pc[c] \in {"aput_c", "aput_t"}
    /\ LET v == validConn(pool, got[c])
       IN  IF ~v.ok
           THEN /\ pool' = v.P
                /\ mx' = mx
                /\ pc' = [pc EXCEPT ![c] = "idle"]
                /\ ret' = Returned(c, waitErr(c), "wait")
           ELSE IF mx = Free
           THEN LET P == autoPutConnBody(v.P, got[c])
                IN  /\ Unlock(P, c)
                    /\ IF P.stuck
                       THEN /\ pc' = [pc EXCEPT ![c] = "stuck"]
                            /\ ret' = NoRet
                       ELSE /\ pc' = [pc EXCEPT ![c] = "idle"]
                            /\ ret' = Returned(c, waitErr(c), "wait")
           ELSE /\ pool' = v.P
                /\ mx' = mx
                /\ pc' = [pc EXCEPT ![c] = "blocked"]
                /\ ret' = NoRet
    /\ got' = [got EXCEPT ![c] = None]
    /\ UNCHANGED <<closeVars, held, reg, status, taskVars, mpc>>

\* ---------------------------------------------------------------- Put
\* Put(conn) of the handle the client holds.  c.mx.Lock() either succeeds
\* or, when mx is held for ever, never returns.
Put(c) ==
    /\ Running
    /\ pc[c] = "idle"
    /\ held[c] # None
    /\ IF mx = Free
       THEN LET r == PutBody(pool, held[c])
            IN  /\ Unlock(r.P, c)
                /\ pc' = [pc EXCEPT ![c] = IF r.P.stuck THEN "put_stuck" ELSE "idle"]
                /\ held' = [held EXCEPT ![c] = None]
       ELSE /\ pc' = [pc EXCEPT ![c] = "put_blocked"]
            /\ UNCHANGED <<pool, mx, held>>
    /\ ret' = NoRet
    /\ UNCHANGED <<closeVars, got, reg, status, taskVars, mpc>>

\* -------------------------------------------------------------- Close
\* Close lines 121-124: the check of c.close; a closed pool makes it return
CloseStart(k) ==
    /\ Running
    /\ cpc[k] = "idle"
    /\ cpc' = [cpc EXCEPT ![k] = IF isClose THEN "idle" ELSE "close_do"]
    /\ ret' = NoRet
    /\ UNCHANGED <<poolVars, closed, closeDone, panicked, clientVars, status,
                   taskVars, mpc>>

\* lines 125-126: close(c.close) wakes every goroutine blocked in a select on
\* it; it panics when another Close has closed the channel in between
CloseDo(k) ==
    /\ Running
    /\ cpc[k] = "close_do"
    /\ IF closed
       THEN /\ panicked' = TRUE
            /\ UNCHANGED <<closed, pc, cpc>>
       ELSE /\ closed' = TRUE
            /\ pc' = [c \in Clients |->
                        IF Parked(pool, c) THEN "woke_close" ELSE pc[c]]
            /\ cpc' = [cpc EXCEPT ![k] = "close_lock"]
            /\ UNCHANGED panicked
    /\ ret' = NoRet
    /\ UNCHANGED <<poolVars, closeDone, held, got, reg, status, taskVars, mpc>>

\* lines 130-137
CloseDrain(k) ==
    /\ Running
    /\ cpc[k] = "close_lock"
    /\ mx = Free
    /\ pool' = drain(pool)
    /\ closeDone' = TRUE
    /\ cpc' = [cpc EXCEPT ![k] = "idle"]
    /\ ret' = NoRet
    /\ UNCHANGED <<closed, panicked, mx, clientVars, status, taskVars, mpc>>

\* ------------------------------------------------- replenish goroutines
\* the handles that are still somewhere: idle, checked out, on their way
Live(h) ==
    \/ InSeq(pool.connList, h)
    \/ \E c \in Clients : held[c] = h \/ got[c] = h \/ pool.ch[c] = h
    \/ \E a \in apPending : a.conn = h

NextConn == CHOOSE h \in Conns : status[h] = "none" /\ \A g \in Conns : status[g] = "none" => h <= g

\* applyConnectLoop: the Creator returns a connection; makeConn, then
\* autoPutConn up to its validConn (lines 195-197), by the applyConnectLoop
\* that still waits (att) or else by the creating goroutine itself.
\* The Validator may reject the new handle.
CreatorOk(att, st) ==
    /\ Running
    /\ IF att THEN creating > 0 ELSE orphans > 0
    /\ \E h \in Conns : status[h] = "none"
    /\ LET h == NextConn
       IN  /\ status' = [status EXCEPT ![h] = st]
           /\ IF st = "ok"
              THEN /\ apPending' = apPending \cup {[conn |-> h, att |-> att]}
                   /\ decOk' = decOk
              ELSE /\ apPending' = apPending
                   /\ decOk' = IF att THEN decOk + 1 ELSE decOk
    /\ creating' = IF att THEN creating - 1 ELSE creating
    /\ orphans' = IF att THEN orphans ELSE orphans - 1
    /\ ret' = NoRet
    /\ UNCHANGED <<poolVars, closeVars, clientVars, decErr, retry, mpc>>

\* the Creator returns an error
CreatorFail(att) ==
    /\ Running
    /\ IF att THEN creating > 0 /\ decErr + retry < MaxRetrying ELSE orphans > 0
    /\ creating' = IF att THEN creating - 1 ELSE creating
    /\ orphans' = IF att THEN orphans ELSE orphans - 1
    /\ decErr' = IF att THEN decErr + 1 ELSE decErr
    /\ ret' = NoRet
    /\ UNCHANGED <<poolVars, closeVars, clientVars, status, apPending, decOk, retry, mpc>>

\* applyConnectLoop lines 77-80: the pool closes or ConnectTimeout passes
\* before the Creator returns; the Creator call goes on without a caller
applyGiveUp ==
    /\ Running
    /\ creating > 0
    /\ orphans < MaxOrphans
    /\ decErr + retry < MaxRetrying
    /\ creating' = creating - 1
    /\ orphans' = orphans + 1
    /\ decErr' = decErr + 1
    /\ ret' = NoRet
    /\ UNCHANGED <<poolVars, closeVars, clientVars, status, apPending, decOk, retry, mpc>>

\* autoPutConn lines 199-214 for a created handle
autoPutConn(a) ==
    /\ Running
    /\ a \in apPending
    /\ mx = Free
    /\ LET P == autoPutConnBody(pool, a.conn)
       IN  /\ Unlock(P, TaskId)
           /\ decOk' = IF a.att /\ ~P.stuck THEN decOk + 1 ELSE decOk
    /\ apPending' = apPending \ {a}
    /\ ret' = NoRet
    /\ UNCHANGED <<closeVars, clientVars, status, creating, orphans, decErr, retry, mpc>>

\* replenishLackConn lines 102-104, after a creation that succeeded
taskDecOk ==
    /\ Running
    /\ decOk > 0
    /\ mx = Free
    /\ pool' = [pool EXCEPT !.connectingCount = @ - 1]
    /\ decOk' = decOk - 1
    /\ ret' = NoRet
    /\ UNCHANGED <<closeVars, mx, clientVars, status, creating, orphans, apPending,
                   decErr, retry, mpc>>

\* the same after a creation that failed: the goroutine will retry
taskDecErr ==
    /\ Running
    /\ decErr > 0
    /\ mx = Free
    /\ pool' = [pool EXCEPT !.connectingCount = @ - 1]
    /\ decErr' = decErr - 1
    /\ retry' = retry + 1
    /\ ret' = NoRet
    /\ UNCHANGED <<closeVars, mx, clientVars, status, creating, orphans, apPending,
                   decOk, mpc>>

\* lines 107-108: after the sleep, replenishLackConn again
taskRetry ==
    /\ Running
    /\ retry > 0
    /\ replenishLackConn
    /\ retry' = retry - 1
    /\ ret' = NoRet
    /\ UNCHANGED <<closeVars, clientVars, status, orphans, apPending, decOk, decErr, mpc>>

\* ------------------------------------------------------- checkIdleLoop
\* case <-t.C, then releaseInvalidConn
maintTick ==
    /\ Running
    /\ mpc = "sleep"
    /\ mx = Free
    /\ pool' = releaseInvalidConn(pool)
    /\ mpc' = "needless"
    /\ ret' = NoRet
    /\ UNCHANGED <<closeVars, mx, clientVars, status, taskVars>>

\* case <-c.close
maintStop ==
    /\ Running
    /\ mpc = "sleep"
    /\ closed
    /\ mpc' = "stopped"
    /\ ret' = NoRet
    /\ UNCHANGED <<poolVars, closeVars, clientVars, status, taskVars>>

maintNeedless ==
    /\ Running
    /\ mpc = "needless"
    /\ mx = Free
    /\ pool' = releaseNeedlessConn(pool)
    /\ mpc' = "repl"
    /\ ret' = NoRet
    /\ UNCHANGED <<closeVars, mx, clientVars, status, taskVars>>

\* a faulty tick: the replenishLackConn of line 44 is left out
maintReplenishSkipped ==
    /\ Running
    /\ mpc = "repl"
    /\ mpc' = "sleep"
    /\ ret' = NoRet
    /\ UNCHANGED <<poolVars, closeVars, clientVars, status, taskVars>>

\* line 44: replenishLackConn
maintReplenish ==
    /\ Running
    /\ mpc = "repl"
    /\ replenishLackConn
    /\ mpc' = IF replenishBlocks THEN "blocked" ELSE "sleep"
    /\ ret' = NoRet
    /\ UNCHANGED <<closeVars, clientVars, status, orphans, apPending, decOk, decErr, retry>>

\* ------------------------------------------------------- the environment
\* the connection behind a handle breaks: the Validator will say false
Break(h) ==
    /\ Running
    /\ status[h] = "ok"
    /\ Live(h)
    /\ status' = [status EXCEPT ![h] = "broken"]
    /\ ret' = NoRet
    /\ UNCHANGED <<poolVars, closeVars, clientVars, taskVars, mpc>>

\* time passes: the handle is older than MaxConnLifetime
Expire(h) ==
    /\ Running
    /\ status[h] = "ok"
    /\ Live(h)
    /\ status' = [status EXCEPT ![h] = "stale"]
    /\ ret' = NoRet
    /\ UNCHANGED <<poolVars, closeVars, clientVars, taskVars, mpc>>

\* ------------------------------------------------------- NewConnectPool
\* mpc = "new": initConnect at line 20.  With WaitFirstConn it calls
\* applyConnectLoop, which starts the Creator and waits for it ("new_wait")
newApply ==
    /\ mpc = "new"
    /\ pool.waitFirstConn
    /\ mpc' = "new_wait"
    /\ ret' = NoRet
    /\ UNCHANGED <<poolVars, closeVars, clientVars, status, taskVars>>

\* the first Creator call returns a connection: applyConnectLoop lines 72-76
\* run autoPutConn(makeConn(v)) and return nil; initConnect goes on to line 28
newFirstOk(st) ==
    /\ mpc = "new_wait"
    /\ \E h \in Conns : status[h] = "none"
    /\ LET h == NextConn
       IN  /\ status' = [status EXCEPT ![h] = st]
           /\ pool' = IF st = "ok" THEN autoPutConnBody(pool, h) ELSE pool
    /\ mpc' = "new_repl"
    /\ ret' = NoRet
    /\ UNCHANGED <<mx, closeVars, clientVars, taskVars>>

\* a faulty initConnect: the error of applyConnectLoop is ignored
newFirstFailIgnored ==
    /\ mpc = "new_wait"
    /\ mpc' = "new_repl"
    /\ ret' = NoRet
    /\ UNCHANGED <<poolVars, closeVars, clientVars, status, taskVars>>

\* the first Creator call returns an error: applyConnectLoop returns it (line
\* 76), initConnect wraps it (line 23) and NewConnectPool returns it (line 72)
newFirstFail ==
    /\ mpc = "new_wait"
    /\ mpc' = "new_error"
    /\ ret' = NoRet
    /\ UNCHANGED <<poolVars, closeVars, clientVars, status, taskVars>>

\* ConnectTimeout passes first: applyConnectLoop returns ctx.Err() (line 80);
\* the Creator call goes on without a caller
newFirstTimeout ==
    /\ mpc = "new_wait"
    /\ orphans < MaxOrphans
    /\ orphans' = orphans + 1
    /\ mpc' = "new_error"
    /\ ret' = NoRet
    /\ UNCHANGED <<poolVars, closeVars, clientVars, status, creating, apPending,
                   decOk, decErr, retry>>

\* initConnect line 28 (replenishLackConn) and NewConnectPool lines 76-78:
\* checkIdleLoop is started and the pool is returned to its n callers of Get
\* and Put and its k callers of Close
newReturn(n, k) ==
    /\ \/ mpc = "new" /\ ~pool.waitFirstConn
       \/ mpc = "new_repl"
    /\ replenishLackConn
    /\ mpc' = "sleep"
    /\ pc' = [c \in Clients |-> IF c <= n THEN "idle" ELSE "off"]
    /\ cpc' = [j \in Closers |-> IF j <= k THEN "idle" ELSE "off"]
    /\ ret' = NoRet
    /\ UNCHANGED <<closed, closeDone, panicked, held, got, reg, status, orphans,
                   apPending, decOk, decErr, retry>>

\* ----------------------------------------------------------------- Next
\* The pool with src/wait.go, its clients, Close and the creations that succeed
Next ==
    \/ \E c \in Clients : GetStart(c)
    \/ \E c \in Clients : getLoop(c)
    \/ \E c \in Clients : getReplenish(c)
    \/ \E c \in Clients : waitPark(c)
    \/ \E c \in Clients : waitClosed(c)
    \/ \E c \in Clients : waitTimerFires(c)
    \/ \E c \in Clients : waitTimeout(c)
    \/ \E c \in Clients : Put(c)
    \/ \E k \in Closers : CloseStart(k)
    \/ \E k \in Closers : CloseDo(k)
    \/ \E k \in Closers : CloseDrain(k)
    \/ \E st \in {"ok", "broken"} : CreatorOk(TRUE, st)
    \/ \E a \in apPending : autoPutConn(a)
    \/ taskDecOk

Spec == Init /\ [][Next]_vars

\* The same pool with the buffered wait path of src/unnamed/part_003
InitBuf == Boot(1, 2, 1, 0)

NextBuf ==
    \/ \E c \in Clients : GetStart(c)
    \/ \E c \in Clients : getLoop(c)
    \/ \E c \in Clients : getReplenish(c)
    \/ \E c \in Clients : waitPark(c)
    \/ \E c \in Clients : waitClosed(c)
    \/ \E c \in Clients : waitTimerFires(c)
    \/ \E c \in Clients : waitRecv(c)
    \/ \E c \in Clients : waitInc(c)
    \/ \E c \in Clients : waitReconcile(c)
    \/ \E c \in Clients : waitAutoPut(c)
    \/ \E c \in Clients : Put(c)
    \/ \E k \in Closers : CloseStart(k)
    \/ \E k \in Closers : CloseDo(k)
    \/ \E k \in Closers : CloseDrain(k)
    \/ \E st \in {"ok", "broken"} : CreatorOk(TRUE, st)
    \/ \E a \in apPending : autoPutConn(a)
    \/ taskDecOk

SpecBuf == InitBuf /\ [][NextBuf]_vars

\* The pool with src/wait.go, one client and two goroutines that call Close
InitClose == Boot(0, 1, 2, 0)

SpecClose == InitClose /\ [][Next]_vars

\* The pool with src/wait.go in service: client 1 holds a handle
InitServe == Boot(0, 2, 1, 1)

SpecServe == InitServe /\ [][Next]_vars

\* The pool with src/wait.go and one client, together with checkIdleLoop,
\* the creations that fail or outlive their caller, and the ageing of handles
InitAll == Boot(0, 1, 1, 0)

NextAll ==
    \/ Next
    \/ \E st \in {"ok", "broken"} : CreatorOk(FALSE, st)
    \/ \E att \in BOOLEAN : CreatorFail(att)
    \/ applyGiveUp
    \/ taskDecErr
    \/ taskRetry
    \/ maintTick
    \/ maintStop
    \/ maintNeedless
    \/ maintReplenish
    \/ \E h \in Conns : Break(h)
    \/ \E h \in Conns : Expire(h)

SpecAll == InitAll /\ [][NextAll]_vars

\* The pool with src/wait.go, one client, Close, a Creator that succeeds and
\* checkIdleLoop.  The ticker of checkIdleLoop fires again and again and the
\* three calls of a tick return when the mutex is free, so the steps of the
\* maintainer are taken whenever they stay possible; so are the steps of the
\* goroutines that replenishLackConn starts.  Clients and Close are free to
\* act or not.
NextLive ==
    \/ Next
    \/ maintTick
    \/ maintStop
    \/ maintNeedless
    \/ maintReplenish

SpecLive ==
    /\ InitAll
    /\ [][NextLive]_vars
    /\ WF_vars(maintTick)
    /\ WF_vars(maintNeedless)
    /\ WF_vars(maintReplenish)
    /\ WF_vars(\E st \in {"ok", "broken"} : CreatorOk(TRUE, st))
    /\ WF_vars(\E a \in apPending : autoPutConn(a))
    /\ WF_vars(taskDecOk)

\* NewConnectPool from line 70 on, with WaitFirstConn set or not, then the
\* pool with src/wait.go, one client, Close and a Creator that may fail or
\* outlive its caller
InitNew ==
    /\ \E w \in BOOLEAN : pool = NewPool(0, w)
    /\ closed = FALSE
    /\ closeDone = FALSE
    /\ panicked = FALSE
    /\ mx = Free
    /\ pc = [c \in Clients |-> "off"]
    /\ cpc = [j \in Closers |-> "off"]
    /\ held = [c \in Clients |-> None]
    /\ got = [c \in Clients |-> None]
    /\ ret = NoRet
    /\ reg = [c \in Clients |-> 0]
    /\ status = [h \in Conns |-> "none"]
    /\ creating = 0
    /\ orphans = 0
    /\ apPending = {}
    /\ decOk = 0
    /\ decErr = 0
    /\ retry = 0
    /\ mpc = "new"

NextNew ==
    \/ newApply
    \/ \E st \in {"ok", "broken"} : newFirstOk(st)
    \/ newFirstFail
    \/ newFirstTimeout
    \/ newReturn(1, 1)
    \/ Next
    \/ \E st \in {"ok", "broken"} : CreatorOk(FALSE, st)
    \/ \E att \in BOOLEAN : CreatorFail(att)
    \/ applyGiveUp
    \/ taskDecErr
    \/ taskRetry

SpecNew == InitNew /\ [][NextNew]_vars

\* =================================================================== claims

\* C1: with MaxActive >= 1, activeNum + |activeWaitList| <= MaxActive in every
\* reachable state: at most MaxActive callers hold a handle or a credit.
C1_ActiveLimit ==
    pool.activeNum + Len(pool.activeWaitList) <= MaxActive

\* C2: every Get returns: no Get waits for a mutex that is never released,
\* and none blocks for ever inside its own critical section or in the
\* replenishLackConn it calls.
C2_GetReturns ==
    \A c \in Clients :
        /\ pc[c] \notin {"stuck", "blocked"}
        /\ pc[c] \in {"get_lock", "timeout_lock"} => mx = Free

\* C3: no handle is lost: every handle the Creator has produced is in the
\* conn list, held by a caller, on its way to one (in a waitReq channel, in
\* a waiter's hands, in an autoPutConn) or has been given to the Closer.
C3_NoHandleLost ==
    \A h \in Conns : status[h] # "none" => Live(h) \/ pool.closeCalls[h] > 0

C5_TimeoutReturns ==
    \A c \in Clients :
        /\ pc[c] # "stuck"
        /\ pc[c] = "timeout_lock" => mx = Free

\* C6: |waitList| <= MaxWaitConnCount always, and a Get that finds no credit
\* while |waitList| >= MaxWaitConnCount is exactly the Get that returns
\* MaxWaitLimit from its critical section, leaving the pool as it was.
C6_WaitLimit ==
    /\ [](Len(pool.waitList) <= MaxWaitConnCount)
    /\ [][\A c \in Clients :
             (/\ pc[c] = "get_lock" /\ pc'[c] # "get_lock"
              /\ pool.gate = 0
              /\ Len(pool.waitList) >= MaxWaitConnCount)
             <=> (/\ ret' = Returned(c, "MaxWaitLimit", "lock")
                  /\ pool' = pool
                  /\ pc'[c] = "idle")]_vars

\* a Get has just returned MaxWaitLimit
C6_Witness ==
    \E c \in Clients : ret = Returned(c, "MaxWaitLimit", "lock")

\* C7: once the pool is closed no Get adds a waitReq to waitList or to
\* activeWaitList, whatever the interleaving of its closed check with Close.
C7_NoWaiterAfterClose ==
    [][closed =>
         \A c \in Clients :
             (InSeq(pool'.waitList, c) \/ InSeq(pool'.activeWaitList, c))
             => (InSeq(pool.waitList, c) \/ InSeq(pool.activeWaitList, c))]_vars

C9_CloseIdempotent ==
    /\ ~panicked
    /\ \A k \in Closers : cpc[k] = "close_lock" => mx = Free
    /\ \A h \in Conns : pool.closeCalls[h] <= 1

\* C10: once a Close has returned, the conn list is empty in every later
\* state.
C10_EmptyAfterClose ==
    closeDone => Len(pool.connList) = 0

NextAge ==
    \/ Next
    \/ \E h \in Conns : Break(h)
    \/ \E h \in Conns : Expire(h)

SpecAge == InitServe /\ [][NextAge]_vars

C13_InvalidClosedOnce ==
    [][\A h \in Conns :
          (/\ status[h] \in {"broken", "stale"}
           /\ InSeq(pool.connList, h) \/ \E c \in Clients : held[c] = h
           /\ pool.closeCalls[h] < MaxCloseCalls
           /\ ~Live(h)')
          => pool'.closeCalls[h] = pool.closeCalls[h] + 1]_vars

\* instances of the arithmetic of checkNeedConnCount, for the Configs that
\* Config.Check lets through (MinIdle >= 1, BatchIncrement >= 1)
C14_Cases ==
    \A minIdle \in 1..3, batchIncrement \in 1..5, idle \in 0..4, connecting \in 0..4 :
        /\ idle + connecting >= minIdle
           => needConnCount(minIdle, batchIncrement, 0, idle, connecting) < 1
        /\ batchIncrement > minIdle + 1
           => needConnCount(minIdle, batchIncrement, 1, 0, 0) = batchIncrement

\* C14: one call of replenishLackConn on an open pool launches exactly
\* max(0, need) creations and adds the same number to connectingCount, where
\* need = MinIdle + |activeWaitList| - |connList|, raised to BatchIncrement
\* when a waiter with a credit exists and need is smaller, then reduced by
\* connectingCount; on a closed pool it launches none, and nothing else
\* launches a creation.  Hence none is launched when |connList| +
\* connectingCount >= MinIdle and nobody waits, and exactly BatchIncrement
\* when one waiter exists, the conn list is empty, nothing is in flight and
\* BatchIncrement > MinIdle + 1.
C14_ReplenishCount ==
    /\ [][LET w      == Len(pool.activeWaitList)
              base   == MinIdle + w - Len(pool.connList)
              raised == IF w > 0 /\ base < BatchIncrement THEN BatchIncrement ELSE base
              need   == raised - pool.connectingCount
              launch == IF closed \/ need < 0 THEN 0 ELSE need
              called == \/ \E c \in Clients : pc[c] = "get_repl" /\ pc'[c] = "wait_enter"
                        \/ mpc = "repl" /\ mpc' = "sleep"
                        \/ retry' = retry - 1
          IN  /\ (called /\ (closed \/ mx = Free))
                 => /\ creating' = creating + launch
                    /\ pool'.connectingCount = pool.connectingCount + launch
              /\ creating' > creating => called]_vars
    /\ []C14_Cases

\* a Get with a credit has found the conn list empty and its call of
\* replenishLackConn has launched one creation more than the MinIdle in flight
C14_Witness ==
    /\ ~closed
    /\ Len(pool.activeWaitList) = 1
    /\ creating = MinIdle + 1
    /\ pool.connectingCount = MinIdle + 1

\* a conn list of n handles with no Closer call yet; the shrink step applied
\* t times in a row; the number of handles one shrink step has to remove
C15_Start(n) ==
    [connList |-> [i \in 1..n |-> i],
     closeCalls |-> [h \in 1..6 |-> 0],
     goClose |-> [h \in 1..6 |-> 0]]

RECURSIVE C15_Ticks(_, _, _, _)
C15_Ticks(maxIdle, batchShrink, P, t) ==
    IF t = 0 THEN P
    ELSE C15_Ticks(maxIdle, batchShrink, shrinkConn(maxIdle, batchShrink, P, 0), t - 1)

C15_Removed(n, maxIdle, batchShrink) ==
    LET surplus == IF n > maxIdle THEN n - maxIdle ELSE 0
    IN  IF surplus < batchShrink THEN surplus ELSE batchShrink

\* the shrink step on 0..6 idle handles for MaxIdle and BatchShrink in 1..3,
\* and the run of TestAutoReleaseNeedlessConn (6 idle, MaxIdle 2, BatchShrink 3)
C15_Cases ==
    /\ \A n \in 0..6, maxIdle \in 1..3, batchShrink \in 1..3 :
          LET P == C15_Start(n)
              Q == shrinkConn(maxIdle, batchShrink, P, 0)
              k == C15_Removed(n, maxIdle, batchShrink)
          IN  /\ Q.connList = SubSeq(P.connList, 1, n - k)
              /\ \A h \in 1..6 :
                    /\ Q.goClose[h] = IF n - k < h /\ h <= n THEN 1 ELSE 0
                    /\ Q.closeCalls[h] = Q.goClose[h]
              /\ n >= maxIdle => Len(Q.connList) >= maxIdle
              /\ Len(C15_Ticks(maxIdle, batchShrink, P, n).connList)
                    = IF n > maxIdle THEN maxIdle ELSE n
    /\ Len(C15_Ticks(2, 3, C15_Start(6), 1).connList) = 3
    /\ Len(C15_Ticks(2, 3, C15_Start(6), 2).connList) = 2
    /\ Len(C15_Ticks(2, 3, C15_Start(6), 3).connList) = 2

\* C15: the shrink step of one maintainer tick removes exactly
\* min(max(|connList| - MaxIdle, 0), BatchShrink) handles from the back of the
\* conn list and schedules the Closer once for each of them and for no other
\* handle; it changes nothing else, never leaves fewer than MaxIdle handles
\* when there were that many, and repeated steps bring the conn list down to
\* MaxIdle (6 idle, MaxIdle 2, BatchShrink 3: 3 are closed, then 1).
C15_ShrinkStep ==
    /\ [][(mpc = "needless" /\ mpc' = "repl") =>
            LET n    == Len(pool.connList)
                k    == C15_Removed(n, MaxIdle, BatchShrink)
                gone == {pool.connList[i] : i \in (n - k + 1)..n}
            IN  /\ pool'.connList = SubSeq(pool.connList, 1, n - k)
                /\ n >= MaxIdle => Len(pool'.connList) >= MaxIdle
                /\ \A h \in Conns :
                      /\ pool'.goClose[h] =
                            IF h \in gone THEN Bump(pool.goClose[h]) ELSE pool.goClose[h]
                      /\ pool'.closeCalls[h] =
                            IF h \in gone THEN Bump(pool.closeCalls[h]) ELSE pool.closeCalls[h]
                /\ pool' = [pool EXCEPT !.connList = pool'.connList,
                                        !.goClose = pool'.goClose,
                                        !.closeCalls = pool'.closeCalls]]_vars
    /\ []C15_Cases

\* the shrink step has just removed a valid handle from a conn list that was
\* longer than MaxIdle: its Closer is scheduled and MaxIdle handles are left
C15_Witness ==
    /\ mpc = "repl"
    /\ Len(pool.connList) = MaxIdle
    /\ \E h \in Conns :
          /\ status[h] = "ok"
          /\ pool.goClose[h] = 1
          /\ ~InSeq(pool.connList, h)

\* C16: on an open pool whose Creator succeeds, every state is followed by
\* one in which |connList| + connectingCount + activeNum >= MinIdle (or the
\* pool has been closed): a deficit in the idle reserve is repaired, at the
\* latest by the replenishLackConn of a maintainer tick.
C16_ReserveRepaired ==
    (~closed) ~>
        (closed \/ Len(pool.connList) + pool.connectingCount + pool.activeNum >= MinIdle)

\* an open pool with a deficit: fewer than MinIdle handles idle, in creation
\* or checked out
C16_Witness ==
    /\ ~closed
    /\ Len(pool.connList) + pool.connectingCount + pool.activeNum < MinIdle

\* C17: with WaitFirstConn, NewConnectPool returns an error when the first
\* Creator call fails (or outlasts ConnectTimeout), and it returns a pool only
\* after a Creator call has succeeded; without WaitFirstConn no Creator
\* failure makes NewConnectPool return an error, and no Get ever returns
\* anything but a handle, PoolClosed, MaxWaitLimit or WaitTimeout: a failed
\* creation is retried in the background.
C17_FirstConn ==
    /\ [][mpc = "new_wait" =>
            \/ mpc' = "new_wait"
            \/ mpc' = "new_error" /\ status' = status
            \/ mpc' = "new_repl" /\ \E h \in Conns : status[h] = "none" /\ status'[h] # "none"]_vars
    /\ [][(mpc = "new" /\ pool.waitFirstConn) => mpc' \in {"new", "new_wait"}]_vars
    /\ []((pool.waitFirstConn /\ mpc \notin {"new", "new_wait", "new_error"})
             => \E h \in Conns : status[h] # "none")
    /\ [](mpc = "new_error" =>
             /\ pool.waitFirstConn
             /\ \A c \in Clients : pc[c] = "off"
             /\ \A h \in Conns : status[h] = "none" \/ ~InSeq(pool.connList, h))
    /\ [](~pool.waitFirstConn => mpc # "new_error")
    /\ [](ret.res \in {"none", "conn", "PoolClosed", "MaxWaitLimit", "WaitTimeout"})
    /\ [][(decErr' > decErr /\ mpc \notin {"new", "new_wait", "new_repl", "new_error"})
             => (mpc' = mpc /\ ret' = NoRet)]_vars

\* NewConnectPool with WaitFirstConn has returned an error: no pool exists
C17_Witness ==
    /\ pool.waitFirstConn
    /\ mpc = "new_error"

\* C18: exclusive ownership: a handle is in one place at most.  It is never
\* in the channels or the hands of two waiters, never held by two callers,
\* and never with a waiter or a caller while it is also in the conn list
\* (and it is in the conn list once).
C18_ExclusiveOwnership ==
    \A h \in Conns :
        Cardinality({i \in 1..Len(pool.connList) : pool.connList[i] = h})
        + Cardinality({c \in Clients : held[c] = h})
        + Cardinality({c \in Clients : got[c] = h})
        + Cardinality({c \in Clients : pool.ch[c] = h}) <= 1

C20_CreditReleasedOnce ==
    [][\A c \in Clients :
          (/\ pc[c] = "timeout_lock" /\ pc'[c] # "timeout_lock"
           /\ pool.hasActiveLock[c]
           /\ ~InSeq(pool.activeWaitList, c))
          => /\ pool'.gate = pool.gate
             /\ pool'.activeWaitList = pool.activeWaitList
             /\ pool'.waitList = pool.waitList
             /\ ~pool'.stuck
             /\ pc'[c] = "idle"]_vars

\* C21: whenever no operation is inside a critical section, the conn list and
\* activeWaitList are not both non-empty: no handle sits idle while a waiter
\* with a credit waits for one.
C21_NoIdleWhileWaiting ==
    (mx = Free /\ ~pool.stuck)
    => ~(Len(pool.connList) > 0 /\ Len(pool.activeWaitList) > 0)

\* C22: a waiter whose Get has not returned and that has not been sent a
\* handle is in exactly one of waitList and activeWaitList, and its
\* hasActiveLock flag is true exactly when it is in activeWaitList; a client
\* whose Get has returned is in neither list; and putActiveLock with a
\* non-empty waitList moves its head to the back of activeWaitList with
\* hasActiveLock = true and puts nothing into the activeLock channel.
C22_WaiterQueues ==
    /\ \A c \in Clients :
          LET inWait   == InSeq(pool.waitList, c)
              inActive == InSeq(pool.activeWaitList, c)
          IN  /\ (/\ pc[c] \in {"get_repl", "wait_enter", "wait", "woke_close",
                                "timeout_lock", "recon_c", "recon_t"}
                  /\ pool.ch[c] = None)
                 => /\ inWait # inActive
                    /\ pool.hasActiveLock[c] <=> inActive
              /\ pc[c] = "idle" => ~inWait /\ ~inActive
    /\ (Len(pool.waitList) > 0 /\ ~pool.stuck) =>
          LET Q   == putActiveLock(pool)
              req == Head(pool.waitList)
          IN  /\ Q.waitList = Tail(pool.waitList)
              /\ Q.activeWaitList = Append(pool.activeWaitList, req)
              /\ Q.hasActiveLock[req]
              /\ Q.gate = pool.gate

\* C23: no pool operation returns while it still holds the mutex: the mutex
\* is held from one step to the next only by an operation that is blocked
\* inside its critical section, never by a Get, Put, Close, autoPutConn,
\* replenishLackConn or maintainer step that has finished.
C23_MutexFreeOnReturn ==
    /\ mx # Free => pool.stuck
    /\ \A c \in Clients : pc[c] = "idle" => mx # c



\* The pool with the buffered wait path of src/unnamed/part_003 and a Config
\* whose MaxActive is one more: two clients can be served at a time
InitRace ==
    /\ pool = [NewPool(1, FALSE) EXCEPT !.maxActive = MaxActive + 1,
                                        !.gate = MaxActive + 1,
                                        !.connectingCount = MinIdle]
    /\ closed = FALSE
    /\ closeDone = FALSE
    /\ panicked = FALSE
    /\ mx = Free
    /\ pc = [c \in Clients |-> IF c <= 2 THEN "idle" ELSE "off"]
    /\ cpc = [j \in Closers |-> IF j <= 1 THEN "idle" ELSE "off"]
    /\ held = [c \in Clients |-> None]
    /\ got = [c \in Clients |-> None]
    /\ ret = NoRet
    /\ reg = [c \in Clients |-> 0]
    /\ status = [h \in Conns |-> "none"]
    /\ creating = MinIdle
    /\ orphans = 0
    /\ apPending = {}
    /\ decOk = 0
    /\ decErr = 0
    /\ retry = 0
    /\ mpc = "sleep"

SpecRace == InitRace /\ [][NextBuf]_vars

\* C24: whenever no Get is between the read and the write of its
\* activeNum++, activeNum is the number of handles that Get has returned and
\* Put has not taken back, and it is never negative.
C24_ActiveNumExact ==
    /\ pool.activeNum >= 0
    /\ (\A c \in Clients : pc[c] # "inc")
       => pool.activeNum = Cardinality({c \in Clients : held[c] # None})

\* The pool with a Config that lets two callers wait in the same list.
\* With src/wait.go: MaxWaitConnCount is one more and three clients call Get,
\* so that two wait in waitList behind one credit.  With the buffered wait
\* path of src/unnamed/part_003: MaxActive is one more as well and two
\* clients call Get, so that two wait in activeWaitList.
InitFifo ==
    /\ \E cap \in {0, 1} :
          /\ pool = [NewPool(cap, FALSE) EXCEPT
                        !.maxActive = MaxActive + cap,
                        !.gate = MaxActive + cap,
                        !.maxWaitConnCount = MaxWaitConnCount + 1,
                        !.connectingCount = MinIdle]
          /\ pc = [c \in Clients |-> IF cap = 1 /\ c > 2 THEN "off" ELSE "idle"]
    /\ closed = FALSE
    /\ closeDone = FALSE
    /\ panicked = FALSE
    /\ mx = Free
    /\ cpc = [j \in Closers |-> IF j <= 1 THEN "idle" ELSE "off"]
    /\ held = [c \in Clients |-> None]
    /\ got = [c \in Clients |-> None]
    /\ ret = NoRet
    /\ reg = [c \in Clients |-> 0]
    /\ status = [h \in Conns |-> "none"]
    /\ creating = MinIdle
    /\ orphans = 0
    /\ apPending = {}
    /\ decOk = 0
    /\ decErr = 0
    /\ retry = 0
    /\ mpc = "sleep"

NextFifo ==
    \/ NextBuf
    \/ \E c \in Clients : waitTimeout(c)

SpecFifo == InitFifo /\ [][NextFifo]_vars

C25_Before(q, d, c) ==
    \E i \in 1..Len(q) : \E j \in 1..Len(q) : i < j /\ q[i] = d /\ q[j] = c

\* C25: both wait lists are first in, first out.  In every step: a caller that
\* enters a list stands behind all that stay in it; a waiter of waitList that
\* is given a credit leaves no earlier waiter behind in waitList and joins
\* activeWaitList in its old order; a waiter that is sent a handle leaves no
\* earlier waiter behind in activeWaitList.
C25_Fifo ==
    [][\A c \in Clients :
          LET promoted(x) == /\ InSeq(pool.waitList, x)
                             /\ ~pool.hasActiveLock[x]
                             /\ pool'.hasActiveLock[x]
              served(x)   == pool.ch[x] = None /\ pool'.ch[x] # None
          IN  /\ (~InSeq(pool.waitList, c) /\ InSeq(pool'.waitList, c))
                 => \A d \in Clients \ {c} :
                       (InSeq(pool.waitList, d) /\ InSeq(pool'.waitList, d))
                       => C25_Before(pool'.waitList, d, c)
              /\ (~InSeq(pool.activeWaitList, c) /\ InSeq(pool'.activeWaitList, c))
                 => \A d \in Clients \ {c} :
                       (InSeq(pool.activeWaitList, d) /\ InSeq(pool'.activeWaitList, d))
                       => C25_Before(pool'.activeWaitList, d, c)
              /\ promoted(c)
                 => \A d \in Clients \ {c} :
                       C25_Before(pool.waitList, d, c)
                       => /\ ~InSeq(pool'.waitList, d)
                          /\ (/\ promoted(d)
                              /\ InSeq(pool'.activeWaitList, d)
                              /\ InSeq(pool'.activeWaitList, c))
                             => C25_Before(pool'.activeWaitList, d, c)
              /\ served(c)
                 => \A d \in Clients \ {c} :
                       (/\ InSeq(pool.activeWaitList, d)
                        /\ \/ C25_Before(pool.activeWaitList, d, c)
                           \/ ~InSeq(pool.activeWaitList, c))
                       => ~InSeq(pool'.activeWaitList, d)
      ]_vars

\* a timeout has just given the only credit to the waiter that stood first in
\* waitList; the one that came after it is still there
C25_Witness ==
    /\ pool.maxActive = MaxActive
    /\ ret # NoRet
    /\ ret.res = "WaitTimeout"
    /\ pool.gate = 0
    /\ pool.activeNum = 0
    /\ \E a \in Clients : \E b \in Clients \ {a} :
          /\ pool.activeWaitList = <<a>>
          /\ pool.hasActiveLock[a]
          /\ pool.waitList = <<b>>
          /\ pc[a] \in {"wait_enter", "wait"}
          /\ pc[b] \in {"wait_enter", "wait"}


\* C26: the Closer is never called by a goroutine that holds the mutex: every
\* call of ConnClose is one that was started as a goroutine of its own.
C26_CloserDispatched ==
    \A h \in Conns : pool.closeCalls[h] = pool.goClose[h]


\* C27: connectingCount is never negative and counts every Creator call of
\* the replenish goroutines that has not returned, those whose
\* applyConnectLoop has stopped waiting included.
C27_ConnectingCountsCreators ==
    /\ pool.connectingCount >= 0
    /\ pool.connectingCount >= creating + orphans


\* C28: the conn list never holds more than MaxIdle + BatchShrink handles.
C28_IdleBound ==
    Len(pool.connList) <= MaxIdle + BatchShrink

====
